---- MODULE Spec2Model ----
(***************************************************************************)
(* Model of the KardiaMobile 1L PDF -> EDF+ converter.                     *)
(*                                                                         *)
(* Numbers.  The program computes on f64.  The model keeps every quantity  *)
(* as an integer count of a fixed unit, so that all comparisons of the     *)
(* source are exact:                                                       *)
(*   coordinates and line widths : 1/1000 of a PDF unit (0.001 is 1)       *)
(*   colour channels             : 1/4 (1.0 is ColorOne = 4)               *)
(*   voltages                    : 1/VoltScale mV                          *)
(* CTM entries a,b,c,d are plain integers, e,f are coordinates.            *)
(***************************************************************************)
EXTENDS Integers, Sequences, FiniteSets, TLC

VARIABLES
    pc,               \* position of the running function
    err,              \* error the run ended with, "none" while there is none
    \* ---- get_page_height (src/src/pdf_extract.rs) ----
    doc,              \* the objects of the document, by object id
    obj_id,           \* parameter obj_id of the running get_page_height_inner
    depth,            \* parameter depth
    \* ---- extract_paths (src/src/pdf_extract.rs) ----
    page_height,      \* parameter page_height
    state,            \* GraphicsState: ctm, stroke_color, line_width
    state_stack,      \* Vec<GraphicsState>
    current_segments, \* pending segment list
    current_pos,      \* current point
    subpath_start,    \* start of the current subpath
    paths,            \* emitted DrawingPath values / the path list handed on
    nops,             \* number of operations consumed from content.operations
    saveLog,          \* the q / Q operations consumed so far, each with the
                      \* graphics state it saw
    ctmLog,           \* the q, Q and 6-operand cm operations consumed so far,
                      \* each with its operands
    \* ---- ecg_process.rs ----
    baselines,        \* Vec<f64> returned by extract_baselines
    rows,             \* HashMap<usize, Vec<Point>>
    signal,           \* Vec<f64> returned by concatenate_to_signal
    \* ---- edf_write.rs ----
    sample_rate,      \* parameter sample_rate
    file_exists,      \* the output file exists on disk
    file_bytes,       \* its content
    written,          \* number of write_all calls of write_edf completed
    phys_val,         \* the sample converted last
    dig_val           \* its digital value

interpVars == <<page_height, state, state_stack, current_segments, current_pos,
                subpath_start, nops, saveLog, ctmLog, doc, obj_id, depth>>

stageVars == <<baselines, rows, signal>>

edfVars == <<sample_rate, file_exists, file_bytes, written, phys_val, dig_val>>

vars == <<pc, err, paths, interpVars, stageVars, edfVars>>

(***************************************************************************)
(* Units and bounds                                                        *)
(***************************************************************************)
\* 1.0 as a colour channel (the literal of the CMYK conversion)
ColorOne == 4

\* 1.0 as a line width (GraphicsState::default)
DefaultLineWidth == 1000

\* 0.001, the tolerance of "h" and "s"
CloseTol == 1

MaxOps == 5

Abs(v) == IF v < 0 THEN -v ELSE v

Last(s) == s[Len(s)]

Front(s) == SubSeq(s, 1, Len(s) - 1)

(***************************************************************************)
(* pdf_extract.rs: data types and the geometry kernel                      *)
(***************************************************************************)
Point(px, py) == [x |-> px, y |-> py]

DrawingPath(segs, col, w) == [segments |-> segs, color |-> col, width |-> w]

GraphicsStateDefault ==
    [ctm |-> <<1, 0, 0, 1, 0, 0>>,
     stroke_color |-> <<0, 0, 0>>,
     line_width |-> DefaultLineWidth]

\* the product taken in the other order, m2 * m1
multiply_ctm_reversed(m1, m2) ==
    << m2[1] * m1[1] + m2[3] * m1[2],
       m2[2] * m1[1] + m2[4] * m1[2],
       m2[1] * m1[3] + m2[3] * m1[4],
       m2[2] * m1[3] + m2[4] * m1[4],
       m2[1] * m1[5] + m2[3] * m1[6] + m2[5],
       m2[2] * m1[5] + m2[4] * m1[6] + m2[6] >>

\* m[1..6] is the source's m[0..5]
multiply_ctm(m1, m2) ==
    << m1[1] * m2[1] + m1[3] * m2[2],
       m1[2] * m2[1] + m1[4] * m2[2],
       m1[1] * m2[3] + m1[3] * m2[4],
       m1[2] * m2[3] + m1[4] * m2[4],
       m1[1] * m2[5] + m1[3] * m2[6] + m1[5],
       m1[2] * m2[5] + m1[4] * m2[6] + m1[6] >>

transform_point(px, py, ctm, height) ==
    LET x_pdf == ctm[1] * px + ctm[3] * py + ctm[5]
        y_pdf == ctm[2] * px + ctm[4] * py + ctm[6]
    IN  Point(x_pdf, height - y_pdf)

\* lopdf Object: a number (Real or Integer) or anything else
Num(n) == [kind |-> "Number", val |-> n]

NameObj == [kind |-> "Name", val |-> 0]

IsNum(o) == o.kind = "Number"

\* obj_f64 fails on an operand among the first n of a that is no number
BadOperand(a, n) == \E i \in 1..n : ~IsNum(a[i])

Nums(s) == [i \in 1..Len(s) |-> Num(s[i])]

(***************************************************************************)
(* extract_paths: the interpreter state as one record, and one operator    *)
(* per match arm.  Each arm is given the operands a (a sequence of         *)
(* objects) and returns the next interpreter state; MalformedOperand is    *)
(* decided by Malformed below, before the arm is applied.                  *)
(***************************************************************************)
Interp(ps, st, stack, segs, pos, start) ==
    [paths |-> ps, state |-> st, state_stack |-> stack,
     current_segments |-> segs, current_pos |-> pos, subpath_start |-> start]

Cur == Interp(paths, state, state_stack, current_segments, current_pos,
              subpath_start)

CmykToRgb(c, m, y, k) ==
    << ((ColorOne - c) * (ColorOne - k)) \div ColorOne,
       ((ColorOne - m) * (ColorOne - k)) \div ColorOne,
       ((ColorOne - y) * (ColorOne - k)) \div ColorOne >>

\* the test shared by "h" and "s": current point away from the subpath start
NeedsClose(S) ==
    \/ Abs(S.current_pos.x - S.subpath_start.x) > CloseTol
    \/ Abs(S.current_pos.y - S.subpath_start.y) > CloseTol

\* emit_path tagging the path with the default state instead of the current one
emit_path_default_tag(S) ==
    IF S.current_segments # <<>>
    THEN [S EXCEPT !.paths = Append(@, DrawingPath(S.current_segments,
                                                   GraphicsStateDefault.stroke_color,
                                                   GraphicsStateDefault.line_width)),
                   !.current_segments = <<>>]
    ELSE S

emit_path(S) ==
    IF S.current_segments # <<>>
    THEN [S EXCEPT !.paths = Append(@, DrawingPath(S.current_segments,
                                                   S.state.stroke_color,
                                                   S.state.line_width)),
                   !.current_segments = <<>>]
    ELSE S

ArmSave(S, a) == [S EXCEPT !.state_stack = Append(@, S.state)]

\* "Q" restoring the oldest saved state instead of the most recent one
ArmRestoreOldest(S, a) ==
    IF S.state_stack # <<>>
    THEN [S EXCEPT !.state = Head(S.state_stack),
                   !.state_stack = Tail(S.state_stack)]
    ELSE S

ArmRestore(S, a) ==
    IF S.state_stack # <<>>
    THEN [S EXCEPT !.state = Last(S.state_stack),
                   !.state_stack = Front(S.state_stack)]
    ELSE S

ArmCm(S, a) ==
    IF Len(a) = 6
    THEN [S EXCEPT !.state.ctm =
            multiply_ctm(@, <<a[1].val, a[2].val, a[3].val,
                              a[4].val, a[5].val, a[6].val>>)]
    ELSE S

ArmW(S, a) ==
    IF Len(a) >= 1 THEN [S EXCEPT !.state.line_width = a[1].val] ELSE S

ArmRG(S, a) ==
    IF Len(a) = 3
    THEN [S EXCEPT !.state.stroke_color = <<a[1].val, a[2].val, a[3].val>>]
    ELSE S

ArmG(S, a) ==
    IF Len(a) >= 1
    THEN [S EXCEPT !.state.stroke_color = <<a[1].val, a[1].val, a[1].val>>]
    ELSE S

ArmK(S, a) ==
    IF Len(a) = 4
    THEN [S EXCEPT !.state.stroke_color =
            CmykToRgb(a[1].val, a[2].val, a[3].val, a[4].val)]
    ELSE S

ArmSC(S, a) ==
    CASE Len(a) = 1 ->
           [S EXCEPT !.state.stroke_color = <<a[1].val, a[1].val, a[1].val>>]
      [] Len(a) = 3 ->
           [S EXCEPT !.state.stroke_color = <<a[1].val, a[2].val, a[3].val>>]
      [] Len(a) = 4 ->
           [S EXCEPT !.state.stroke_color =
              CmykToRgb(a[1].val, a[2].val, a[3].val, a[4].val)]
      [] OTHER -> S

ArmMove(S, a) ==
    IF Len(a) = 2
    THEN LET p == transform_point(a[1].val, a[2].val, S.state.ctm, page_height)
         IN  [S EXCEPT !.current_pos = p, !.subpath_start = p]
    ELSE S

ArmLine(S, a) ==
    IF Len(a) = 2
    THEN LET new_pos == transform_point(a[1].val, a[2].val, S.state.ctm,
                                        page_height)
         IN  [S EXCEPT !.current_segments =
                          Append(@, <<S.current_pos, new_pos>>),
                       !.current_pos = new_pos]
    ELSE S

ArmClose(S, a) ==
    IF NeedsClose(S)
    THEN [S EXCEPT !.current_segments =
                      Append(@, <<S.current_pos, S.subpath_start>>),
                   !.current_pos = S.subpath_start]
    ELSE S

ArmRect(S, a) ==
    IF Len(a) = 4
    THEN LET rx == a[1].val
             ry == a[2].val
             rw == a[3].val
             rh == a[4].val
             p1 == transform_point(rx, ry, S.state.ctm, page_height)
             p2 == transform_point(rx + rw, ry, S.state.ctm, page_height)
             p3 == transform_point(rx + rw, ry + rh, S.state.ctm, page_height)
             p4 == transform_point(rx, ry + rh, S.state.ctm, page_height)
         IN  [S EXCEPT !.current_segments =
                          @ \o << <<p1, p2>>, <<p2, p3>>, <<p3, p4>>, <<p4, p1>> >>,
                       !.current_pos = p1,
                       !.subpath_start = p1]
    ELSE S

ArmStroke(S, a) == emit_path(S)

\* "s": the closing segment is pushed, current_pos is left where it was
ArmCloseStroke(S, a) ==
    emit_path(IF NeedsClose(S)
              THEN [S EXCEPT !.current_segments =
                                Append(@, <<S.current_pos, S.subpath_start>>)]
              ELSE S)

ArmFill(S, a) == [S EXCEPT !.current_segments = <<>>]

ArmFillStroke(S, a) == emit_path(S)

ArmEndPath(S, a) == [S EXCEPT !.current_segments = <<>>]

ArmOther(S, a) == S

StrokeOps == {"S", "s", "B", "B*", "b", "b*"}

FillOps == {"f", "F", "f*"}

\* the match of extract_paths
Exec(S, o, a) ==
    CASE o = "q" -> ArmSave(S, a)
      [] o = "Q" -> ArmRestore(S, a)
      [] o = "cm" -> ArmCm(S, a)
      [] o = "w" -> ArmW(S, a)
      [] o = "RG" -> ArmRG(S, a)
      [] o = "G" -> ArmG(S, a)
      [] o = "K" -> ArmK(S, a)
      [] o \in {"SC", "SCN"} -> ArmSC(S, a)
      [] o = "m" -> ArmMove(S, a)
      [] o = "l" -> ArmLine(S, a)
      [] o = "h" -> ArmClose(S, a)
      [] o = "re" -> ArmRect(S, a)
      [] o = "S" -> ArmStroke(S, a)
      [] o = "s" -> ArmCloseStroke(S, a)
      [] o \in FillOps -> ArmFill(S, a)
      [] o \in {"B", "B*", "b", "b*"} -> ArmFillStroke(S, a)
      [] o = "n" -> ArmEndPath(S, a)
      [] OTHER -> ArmOther(S, a)

\* the operands an arm converts with obj_f64, hence the ones that can fail
Malformed(o, a) ==
    CASE o = "cm" -> Len(a) = 6 /\ BadOperand(a, 6)
      [] o \in {"w", "G"} -> Len(a) >= 1 /\ BadOperand(a, 1)
      [] o = "RG" -> Len(a) = 3 /\ BadOperand(a, 3)
      [] o = "K" -> Len(a) = 4 /\ BadOperand(a, 4)
      [] o \in {"SC", "SCN"} -> Len(a) \in {1, 3, 4} /\ BadOperand(a, Len(a))
      [] o \in {"m", "l"} -> Len(a) = 2 /\ BadOperand(a, 2)
      [] o = "re" -> Len(a) = 4 /\ BadOperand(a, 4)
      [] OTHER -> FALSE

(***************************************************************************)
(* extract_paths as a state machine: one step per operation of             *)
(* content.operations.  The content stream is an input; the operations     *)
(* offered here are the bounded alphabet it is drawn from.                 *)
(***************************************************************************)
PageHeights == {792000}

CmOperands == {Nums(<<1, 0, 0, 1, 5000, 0>>), Nums(<<2, 0, 0, 2, 0, 0>>),
               Nums(<<1, 0, 0, 1>>)}

WOperands == {Nums(<<400>>), Nums(<<400, 1000>>), <<>>, <<NameObj>>}

RGOperands == {Nums(<<0, 0, 0>>), Nums(<<4, 0, 0>>), Nums(<<4, 0>>)}

GOperands == {Nums(<<2>>), <<>>}

KOperands == {Nums(<<0, 0, 0, 4>>), Nums(<<0, 2, 4, 0>>), Nums(<<0, 0, 4>>)}

SCOperands == {Nums(<<2>>), Nums(<<0, 4, 0>>), Nums(<<0, 0, 0, 4>>),
               Nums(<<0, 0>>)}

MoveOperands == {Nums(<<0, 0>>), Nums(<<3000, 2000>>), Nums(<<0>>),
                 <<Num(0), NameObj>>}

LineOperands == {Nums(<<0, 0>>), Nums(<<1, 0>>), Nums(<<3000, 2000>>),
                 Nums(<<0, 0, 0>>)}

RectOperands == {Nums(<<0, 0, 2000, 1000>>), Nums(<<0, 0, 2000>>)}

InitStages ==
    /\ baselines = <<>>
    /\ rows = <<>>
    /\ signal = <<>>

InitEdf ==
    /\ sample_rate = 0
    /\ file_exists = FALSE
    /\ file_bytes = <<>>
    /\ written = 0
    /\ phys_val = 0
    /\ dig_val = 0

\* the locals of extract_paths before its loop
InitLocals ==
    /\ doc = <<>>
    /\ obj_id = 0
    /\ depth = 0
    /\ page_height \in PageHeights
    /\ state = GraphicsStateDefault
    /\ state_stack = <<>>
    /\ current_segments = <<>>
    /\ current_pos = Point(0, 0)
    /\ subpath_start = Point(0, 0)
    /\ nops = 0
    /\ saveLog = <<>>
    /\ ctmLog = <<>>

InitInterp ==
    /\ pc = "extract_paths"
    /\ err = "none"
    /\ paths = <<>>
    /\ InitLocals
    /\ InitStages
    /\ InitEdf

Install(S) ==
    /\ paths' = S.paths
    /\ state' = S.state
    /\ state_stack' = S.state_stack
    /\ current_segments' = S.current_segments
    /\ current_pos' = S.current_pos
    /\ subpath_start' = S.subpath_start

\* one iteration of the loop over content.operations
Step(o, a) ==
    /\ pc = "extract_paths"
    /\ nops < MaxOps
    /\ nops' = nops + 1
    /\ saveLog' = IF o \in {"q", "Q"}
                  THEN Append(saveLog, [operator |-> o, state |-> state])
                  ELSE saveLog
    /\ ctmLog' = IF \/ o \in {"q", "Q"}
                    \/ (o = "cm" /\ Len(a) = 6 /\ ~Malformed(o, a))
                 THEN Append(ctmLog, [operator |-> o, operands |-> a])
                 ELSE ctmLog
    /\ UNCHANGED <<page_height, doc, obj_id, depth, stageVars, edfVars>>
    /\ IF Malformed(o, a)
       THEN /\ pc' = "failed"
            /\ err' = "MalformedOperand"
            /\ UNCHANGED <<paths, state, state_stack, current_segments,
                           current_pos, subpath_start>>
       ELSE /\ Install(Exec(Cur, o, a))
            /\ UNCHANGED <<pc, err>>

OpSave == Step("q", <<>>)

OpRestore == Step("Q", <<>>)

OpCm == \E a \in CmOperands : Step("cm", a)

OpW == \E a \in WOperands : Step("w", a)

OpRG == \E a \in RGOperands : Step("RG", a)

OpG == \E a \in GOperands : Step("G", a)

OpK == \E a \in KOperands : Step("K", a)

OpSC == \E o \in {"SC", "SCN"} : \E a \in SCOperands : Step(o, a)

OpMove == \E a \in MoveOperands : Step("m", a)

OpLine == \E a \in LineOperands : Step("l", a)

OpClose == Step("h", <<>>)

OpRect == \E a \in RectOperands : Step("re", a)

OpStroke == Step("S", <<>>)

OpCloseStroke == Step("s", <<>>)

OpFill == \E o \in FillOps : Step(o, <<>>)

OpFillStroke == \E o \in {"B", "B*", "b", "b*"} : Step(o, <<>>)

OpEndPath == Step("n", <<>>)

OpOther == Step("BT", <<>>)

\* content.operations is exhausted: Ok(paths)
InterpDone ==
    /\ pc = "extract_paths"
    /\ pc' = "extract_baselines"
    /\ UNCHANGED <<err, paths, interpVars, stageVars, edfVars>>

NextInterp ==
    \/ OpSave
    \/ OpRestore
    \/ OpCm
    \/ OpW
    \/ OpRG
    \/ OpG
    \/ OpK
    \/ OpSC
    \/ OpMove
    \/ OpLine
    \/ OpClose
    \/ OpRect
    \/ OpStroke
    \/ OpCloseStroke
    \/ OpFill
    \/ OpFillStroke
    \/ OpEndPath
    \/ OpOther
    \/ InterpDone

SpecInterp == InitInterp /\ [][NextInterp]_vars

(***************************************************************************)
(* ecg_process.rs.  Thresholds are in 1/1000 of a PDF unit.                *)
(***************************************************************************)
\* 0.35 < width < 0.45
WidthLo == 350

WidthHi == 450

\* path.segments.len() < 4 is skipped by extract_baselines
MinGridSegments == 4

\* |p1.y - p2.y| < 0.01
HorizTol == 10

\* |p2.x - p1.x| > 500.0
MinSpan == 500000

\* y < 760.0
VisibleY == 760000

\* visible.len() >= 4, visible[..4]
NumBaselines == 4

\* path.segments.len() < 40 is skipped by extract_ecg_waveform_rows
MinEcgSegments == 40

\* 0.001, the tolerance for a shared endpoint
PointTol == 1

\* min_dist < 80.0
RowMaxDist == 80000

\* |x - last kept x| > 0.01
DedupTol == 10

\* main: cal_pt_per_mv = 28.346
CalPtPerMv == 28346

\* voltages are counted in 1/VoltScale mV, VoltScale = VoltPerPoint *
\* cal_pt_per_mv, so that dividing a coordinate difference by cal_pt_per_mv
\* is exact: a difference of d/1000 units is d * VoltPerPoint / VoltScale mV
VoltPerPoint == 10

VoltScale == VoltPerPoint * CalPtPerMv

IsBlack(color) == color[1] = 0 /\ color[2] = 0 /\ color[3] = 0

WidthInBand(w) == WidthLo < w /\ w < WidthHi

IsRuling(seg) ==
    /\ Abs(seg[1].y - seg[2].y) < HorizTol
    /\ Abs(seg[2].x - seg[1].x) > MinSpan

\* y_values of one path: p1.y of every ruling, in segment order
RECURSIVE RulingYs(_, _)
RulingYs(segs, i) ==
    IF i > Len(segs)
    THEN <<>>
    ELSE IF IsRuling(segs[i])
         THEN <<segs[i][1].y>> \o RulingYs(segs, i + 1)
         ELSE RulingYs(segs, i + 1)

\* the visibility filter admitting y = 760 itself
IsVisibleInclusive(y) == y <= VisibleY

IsVisible(y) == y < VisibleY

Ok(v) == [ok |-> TRUE, val |-> v]

Err(e) == [ok |-> FALSE, val |-> e]

\* the loop of extract_baselines from path i on
RECURSIVE BaselineScan(_, _)
BaselineScan(ps, i) ==
    IF i > Len(ps)
    THEN Err("BaselinesNotFound")
    ELSE LET path == ps[i]
             visible == SelectSeq(RulingYs(path.segments, 1), IsVisible)
         IN  IF ~IsBlack(path.color)
             THEN BaselineScan(ps, i + 1)
             ELSE IF ~WidthInBand(path.width)
             THEN BaselineScan(ps, i + 1)
             ELSE IF Len(path.segments) < MinGridSegments
             THEN BaselineScan(ps, i + 1)
             ELSE IF Len(visible) >= NumBaselines
             THEN Ok(SubSeq(visible, 1, NumBaselines))
             ELSE BaselineScan(ps, i + 1)

extract_baselines(ps) == BaselineScan(ps, 1)

\* the filter of extract_ecg_waveform_rows with fewer segments admitted
IsTraceStyle39(path) ==
    /\ IsBlack(path.color)
    /\ WidthInBand(path.width)
    /\ ~(Len(path.segments) < MinEcgSegments - 1)

\* the three continue-tests of extract_ecg_waveform_rows
IsTraceStyle(path) ==
    /\ IsBlack(path.color)
    /\ WidthInBand(path.width)
    /\ ~(Len(path.segments) < MinEcgSegments)

\* The loops over a Vec are written over a span lo..hi of its indices and
\* split in two halves run one after the other, which keeps the nesting of
\* the evaluation logarithmic in the length.

\* TRUE of every sequence; testing it makes the model checker compute the
\* first half before it enters the second
Evaluated(seq) == Len(seq) >= 0

\* the loop over path.segments for the segments lo..hi, entered with the
\* points pushed so far: the start of a segment is pushed when it is away
\* from the last pushed point, the end always
RECURSIVE PathPoints(_, _, _, _)
PathPoints(segs, lo, hi, points) ==
    IF lo > hi
    THEN points
    ELSE IF lo = hi
    THEN LET p1 == segs[lo][1]
             p2 == segs[lo][2]
             withStart ==
                 IF \/ points = <<>>
                    \/ Abs(Last(points).x - p1.x) > PointTol
                    \/ Abs(Last(points).y - p1.y) > PointTol
                 THEN Append(points, p1)
                 ELSE points
         IN  Append(withStart, p2)
    ELSE LET mid == (lo + hi) \div 2
             firstHalf == PathPoints(segs, lo, mid, points)
         IN  IF Evaluated(firstHalf)
             THEN PathPoints(segs, mid + 1, hi, firstHalf)
             ELSE firstHalf

\* points.iter().map(|p| p.y).sum() over the points lo..hi
RECURSIVE SumY(_, _, _)
SumY(points, lo, hi) ==
    IF lo > hi
    THEN 0
    ELSE IF lo = hi
    THEN points[lo].y
    ELSE LET mid == (lo + hi) \div 2
         IN  SumY(points, lo, mid) + SumY(points, mid + 1, hi)

\* |y_center - bl| times the number of points (y_center = y_sum / len)
DistTimesLen(points, bl) ==
    Abs(SumY(points, 1, Len(points)) - Len(points) * bl)

\* the loop over baselines: min_dist starts at infinity, best_row at 0;
\* distances are kept multiplied by points.len()
RECURSIVE NearestRow(_, _, _, _)
NearestRow(points, bls, ri, acc) ==
    IF ri > Len(bls)
    THEN acc
    ELSE LET dist == DistTimesLen(points, bls[ri])
         IN  IF acc.inf \/ dist < acc.min_dist
             THEN NearestRow(points, bls, ri + 1,
                             [inf |-> FALSE, min_dist |-> dist,
                              best_row |-> ri - 1])
             ELSE NearestRow(points, bls, ri + 1, acc)

\* rows.entry(best_row).or_default().extend(points)
RowExtend(rs, key, points) ==
    IF key \in DOMAIN rs
    THEN [rs EXCEPT ![key] = @ \o points]
    ELSE [k \in DOMAIN rs \cup {key} |-> IF k = key THEN points ELSE rs[k]]

\* the body of the loop over paths
AddPath(rs, path, bls) ==
    IF ~IsTraceStyle(path)
    THEN rs
    ELSE LET points == PathPoints(path.segments, 1, Len(path.segments), <<>>)
             near == NearestRow(points, bls, 1,
                                [inf |-> TRUE, min_dist |-> 0, best_row |-> 0])
         IN  IF points = <<>>
             THEN rs
             ELSE IF ~near.inf /\ near.min_dist < RowMaxDist * Len(points)
             THEN RowExtend(rs, near.best_row, points)
             ELSE rs

RECURSIVE RowScan(_, _, _, _)
RowScan(rs, ps, i, bls) ==
    IF i > Len(ps) THEN rs ELSE RowScan(AddPath(rs, ps[i], bls), ps, i + 1, bls)

\* points.sort_by(|a, b| a.x.partial_cmp(&b.x)): a stable sort by x.  The
\* place of element i is the number of elements with a smaller x, or with the
\* same x and an earlier index, plus one.
SortByX(points) ==
    LET n == Len(points)
        place == [i \in 1..n |->
                    1 + Cardinality({j \in 1..n :
                                       \/ points[j].x < points[i].x
                                       \/ /\ points[j].x = points[i].x
                                          /\ j < i})]
    IN  [k \in 1..n |-> points[CHOOSE i \in 1..n : place[i] = k]]

\* the initialisation starting at index 1
EmptyRowsFromOne(bls) == [i \in 1..(Len(bls) - 1) |-> <<>>]

\* rows.insert(i, Vec::new()) for i in 0..baselines.len()
EmptyRows(bls) == [i \in 0..(Len(bls) - 1) |-> <<>>]

extract_ecg_waveform_rows(ps, bls) ==
    LET filled == RowScan(EmptyRows(bls), ps, 1, bls)
    IN  [k \in DOMAIN filled |-> SortByX(filled[k])]

points_to_voltage(points, baseline_y, cal_pt_per_mv) ==
    [i \in 1..Len(points) |->
        (baseline_y - points[i].y) * (VoltScale \div cal_pt_per_mv)]

\* the dedup loop comparing with the point just before in the row
RECURSIVE DedupPrev(_, _, _, _)
DedupPrev(points, lo, hi, deduped) ==
    IF lo > hi
    THEN deduped
    ELSE IF lo = hi
    THEN IF Abs(points[lo].x - points[lo - 1].x) > DedupTol
         THEN Append(deduped, points[lo])
         ELSE deduped
    ELSE LET mid == (lo + hi) \div 2
             firstHalf == DedupPrev(points, lo, mid, deduped)
         IN  IF Evaluated(firstHalf)
             THEN DedupPrev(points, mid + 1, hi, firstHalf)
             ELSE firstHalf

\* the dedup loop of concatenate_to_signal for the points lo..hi (the
\* source's i = lo - 1), entered with the points kept so far
RECURSIVE Dedup(_, _, _, _)
Dedup(points, lo, hi, deduped) ==
    IF lo > hi
    THEN deduped
    ELSE IF lo = hi
    THEN IF Abs(points[lo].x - Last(deduped).x) > DedupTol
         THEN Append(deduped, points[lo])
         ELSE deduped
    ELSE LET mid == (lo + hi) \div 2
             firstHalf == Dedup(points, lo, mid, deduped)
         IN  IF Evaluated(firstHalf)
             THEN Dedup(points, mid + 1, hi, firstHalf)
             ELSE firstHalf

DedupRow(points) == Dedup(points, 2, Len(points), <<points[1]>>)

\* the loop over 0..baselines.len() from row ri on
RECURSIVE ConcatScan(_, _, _, _, _)
ConcatScan(rs, bls, cal_pt_per_mv, ri, all_voltages) ==
    IF ri >= Len(bls)
    THEN Ok(all_voltages)
    ELSE IF ri \notin DOMAIN rs
    THEN Err("IncompleteRowSet")
    ELSE IF rs[ri] = <<>>
    THEN ConcatScan(rs, bls, cal_pt_per_mv, ri + 1, all_voltages)
    ELSE ConcatScan(rs, bls, cal_pt_per_mv, ri + 1,
                    all_voltages \o points_to_voltage(DedupRow(rs[ri]),
                                                      bls[ri + 1],
                                                      cal_pt_per_mv))

concatenate_to_signal(rs, bls, cal_pt_per_mv) ==
    ConcatScan(rs, bls, cal_pt_per_mv, 0, <<>>)

(***************************************************************************)
(* The stages of ecg_process.rs as steps.  pc names the function that runs *)
(* next, in the order main calls them.  Each stage is also run on its own, *)
(* from inputs drawn from a bounded family.                                *)
(***************************************************************************)
MaxGridPaths == 2

MaxTracePaths == 2

MaxRows == 1

MaxRowLen == 4

Seg(x1, y1, x2, y2) == <<Point(x1, y1), Point(x2, y2)>>

\* a horizontal segment 560 units long
Rule(y) == Seg(20000, y, 580000, y)

SeqsUpTo(S, n) == UNION {[1..k -> S] : k \in 0..n}

\* the k-th smallest element of a set of numbers
Kth(S, k) == CHOOSE j \in S : Cardinality({m \in S : m <= j}) = k

\* the elements of a sequence at the indices K, in order
Restrict(seq, K) == [m \in 1..Cardinality(K) |-> seq[Kth(K, m)]]

\* the subsequences of at most n elements
SubSeqsUpTo(seq, n) ==
    {Restrict(seq, K) : K \in {J \in SUBSET (1..Len(seq)) : Cardinality(J) <= n}}

Black == <<0, 0, 0>>

GridSegments ==
    { \* 5 rulings, the third below the visible band
      <<Rule(100000), Rule(300000), Rule(770000), Rule(500000), Rule(700000)>>,
      \* 4 rulings drawn right to left
      <<Seg(580000, 150000, 20000, 150000), Seg(580000, 350000, 20000, 350000),
        Seg(580000, 550000, 20000, 550000), Seg(580000, 750000, 20000, 750000)>>,
      \* the fourth spans exactly 500
      <<Rule(100000), Rule(300000), Rule(500000),
        Seg(20000, 700000, 520000, 700000)>>,
      \* only 3 segments
      <<Rule(100000), Rule(300000), Rule(500000)>>,
      \* one segment off by 0.01, one ruling exactly at 760
      <<Rule(100000), Seg(20000, 300000, 580000, 300010), Rule(500000),
        Rule(700000), Rule(760000)>>,
      \* one segment off by 0.009
      <<Seg(20000, 120000, 580000, 120009), Rule(320000), Rule(520000),
        Rule(720000)>> }

GridPaths ==
    { DrawingPath(segs, col, w) :
        segs \in GridSegments, col \in {Black, <<0, 0, 1>>},
        w \in {350, 400, 450} }

\* segment k of a trace of n segments: x advances by dx, y alternates
\* between y0 + amp and y0 - amp; with gap > 0 a segment starts gap after
\* the end of the one before
TraceSegments(n, x0, dx, y0, amp, gap) ==
    [k \in 1..n |->
        Seg(x0 + (k - 1) * dx + (IF k = 1 THEN 0 ELSE gap),
            IF k % 2 = 1 THEN y0 + amp ELSE y0 - amp,
            x0 + k * dx,
            IF k % 2 = 1 THEN y0 - amp ELSE y0 + amp)]

TraceCatalogue ==
    << \* a zigzag of exactly 40 segments around y = 100
      DrawingPath(TraceSegments(MinEcgSegments, 0, 1000, 100000, 5000, 0),
                  Black, 400),
      \* the same with 39 segments
      DrawingPath(TraceSegments(MinEcgSegments - 1, 0, 1000, 100000, 5000, 0),
                  Black, 400),
      \* a flat trace at y = 300 whose x range overlaps the first, with gaps
      DrawingPath(TraceSegments(MinEcgSegments, 500, 1000, 300000, 0, 2),
                  Black, 351),
      \* width on the edge of the band
      DrawingPath(TraceSegments(MinEcgSegments, 0, 1000, 100000, 5000, 0),
                  Black, 450),
      \* not black
      DrawingPath(TraceSegments(MinEcgSegments, 0, 1000, 100000, 5000, 0),
                  <<1, 0, 0>>, 400),
      \* flat, exactly 80 below y = 100
      DrawingPath(TraceSegments(MinEcgSegments, 0, 1000, 180000, 0, 0),
                  Black, 400),
      \* flat, 79.999 below y = 100
      DrawingPath(TraceSegments(MinEcgSegments + 1, 250, 1000, 179999, 0, 0),
                  Black, 400),
      \* flat, half way between y = 100 and y = 200
      DrawingPath(TraceSegments(MinEcgSegments, 0, 8, 150000, 0, 0),
                  Black, 400) >>

BaselineLists ==
    { <<>>, <<100000>>, <<100000, 300000>>, <<300000, 500000, 100000>>,
      <<100000, 200000>>, <<100000, 300000, 500000, 700000>> }

\* rows for concatenate_to_signal alone: x-sorted, as extract_ecg_waveform_rows
\* leaves them
RowPoints ==
    { Point(1000, 100000), Point(1005, 101000), Point(1010, 102000),
      Point(1016, 103000), Point(2000, 104000) }

IsSortedByX(points) ==
    \A i \in 1..(Len(points) - 1) : points[i].x <= points[i + 1].x

SortedRows == {r \in SeqsUpTo(RowPoints, MaxRowLen) : IsSortedByX(r)}

\* the maps with every index 0..n-1
RowMaps ==
    UNION {[0..(n - 1) -> SortedRows] : n \in 0..MaxRows}

InitBaselines ==
    /\ pc = "extract_baselines"
    /\ err = "none"
    /\ paths \in SeqsUpTo(GridPaths, MaxGridPaths)
    /\ InitLocals
    /\ InitStages
    /\ InitEdf

InitRows ==
    /\ pc = "extract_ecg_waveform_rows"
    /\ err = "none"
    /\ paths \in SubSeqsUpTo(TraceCatalogue, MaxTracePaths)
    /\ baselines \in BaselineLists
    /\ rows = <<>>
    /\ signal = <<>>
    /\ InitLocals
    /\ InitEdf

InitConcat ==
    /\ pc = "concatenate_to_signal"
    /\ err = "none"
    /\ paths = <<>>
    /\ rows \in RowMaps
    /\ baselines \in {bl \in SeqsUpTo({100000, 300000}, MaxRows) :
                        Len(bl) <= Cardinality(DOMAIN rows) + 1}
    /\ signal = <<>>
    /\ InitLocals
    /\ InitEdf

\* let baselines = ecg_process::extract_baselines(&paths)?
ExtractBaselines ==
    /\ pc = "extract_baselines"
    /\ LET r == extract_baselines(paths)
       IN  IF r.ok
           THEN /\ baselines' = r.val
                /\ pc' = "extract_ecg_waveform_rows"
                /\ err' = err
           ELSE /\ baselines' = baselines
                /\ pc' = "failed"
                /\ err' = r.val
    /\ UNCHANGED <<paths, interpVars, rows, signal, edfVars>>

\* let rows = ecg_process::extract_ecg_waveform_rows(&paths, &baselines)
ExtractRows ==
    /\ pc = "extract_ecg_waveform_rows"
    /\ rows' = extract_ecg_waveform_rows(paths, baselines)
    /\ pc' = "concatenate_to_signal"
    /\ UNCHANGED <<err, paths, interpVars, baselines, signal, edfVars>>

\* let signal = ecg_process::concatenate_to_signal(&rows, &baselines, cal)?
Concatenate ==
    /\ pc = "concatenate_to_signal"
    /\ LET r == concatenate_to_signal(rows, baselines, CalPtPerMv)
       IN  IF r.ok
           THEN /\ signal' = r.val
                /\ pc' = "write_edf"
                /\ err' = err
           ELSE /\ signal' = signal
                /\ pc' = "failed"
                /\ err' = r.val
    /\ UNCHANGED <<paths, interpVars, baselines, rows, edfVars>>

SpecBaselines == InitBaselines /\ [][ExtractBaselines]_vars

NextRows ==
    \/ ExtractRows
    \/ Concatenate

SpecRows == InitRows /\ [][NextRows]_vars

SpecConcat == InitConcat /\ [][Concatenate]_vars

(***************************************************************************)
(* edf_write.rs.  A byte is a number 0..255 and a string is the sequence   *)
(* of its ASCII bytes.  Voltages are integers in 1/VoltScale mV and the    *)
(* f64 operations on them are taken as exact.                              *)
(***************************************************************************)
record_duration == 1

n_signals == 2

annotation_samples == 57

header_bytes == 256 + n_signals * 256

dig_min == -32768

dig_max == 32767

\* 0.1 mV, the margin of the physical range
Margin == VoltScale \div 10

\* b' '
Space == 32

\* n * m = q * D + r with 0 <= r < D, for m >= 0 and D > 0, computed along
\* the binary expansion of m so that no intermediate value leaves 32 bits
RECURSIVE MulDiv(_, _, _)
MulDiv(n, m, D) ==
    IF m = 0
    THEN [q |-> 0, r |-> 0]
    ELSE LET h == MulDiv(n, m \div 2, D)
             t == (2 * h.r) + ((m % 2) * (n % D))
         IN  [q |-> (2 * h.q) + ((m % 2) * (n \div D)) + (t \div D),
              r |-> t % D]

\* an f64 that may be infinite: inf is -1, 0 or 1
Finite(v) == [inf |-> 0, val |-> v]

Infinity == [inf |-> 1, val |-> 0]

NegInfinity == [inf |-> -1, val |-> 0]

\* buf.resize(width, b' '); buf.truncate(width): the buffer handed to write_all
write_field(value, width) ==
    [k \in 1..width |-> IF k <= Len(value) THEN value[k] ELSE Space]

\* usize::to_string
RECURSIVE to_string(_)
to_string(n) ==
    IF n < 10
    THEN <<48 + n>>
    ELSE Append(to_string(n \div 10), 48 + (n % 10))

\* voltage_to_digital without the clamp
voltage_to_digital_unclamped(voltage, pmin, pmax) ==
    LET s == MulDiv(voltage - pmin, dig_max - dig_min, pmax - pmin)
        whole == dig_min + s.q
    IN  IF 2 * s.r > pmax - pmin \/ (2 * s.r = pmax - pmin /\ whole >= 0)
        THEN whole + 1
        ELSE whole

\* scaled = dig_min + (voltage - phys_min) / (phys_max - phys_min) * 65535 is
\* whole + s.r / (phys_max - phys_min); f64::round rounds halves away from 0
voltage_to_digital(voltage, pmin, pmax) ==
    LET s == MulDiv(voltage - pmin, dig_max - dig_min, pmax - pmin)
        whole == dig_min + s.q
        rounded == IF 2 * s.r > pmax - pmin
                      \/ (2 * s.r = pmax - pmin /\ whole >= 0)
                   THEN whole + 1
                   ELSE whole
    IN  IF rounded < -32768 THEN -32768
        ELSE IF rounded > 32767 THEN 32767
        ELSE rounded

\* i16::to_le_bytes
to_le_bytes(d) ==
    LET u == d % 65536
    IN  <<u % 256, u \div 256>>

make_annotation_bytes(onset_seconds, ann_samples) ==
    LET tal == <<43>> \o to_string(onset_seconds) \o <<20, 20>>
        total_bytes == ann_samples * 2
    IN  [k \in 1..total_bytes |-> IF k <= Len(tal) THEN tal[k] ELSE 0]

\* format!("{:.prec$}", val) of a finite value: decimal, rounded to prec
\* digits (ties to even), with the sign of val
Fixed(v, prec) ==
    LET s == MulDiv(Abs(v), 10 ^ prec, VoltScale)
        n == IF 2 * s.r > VoltScale \/ (2 * s.r = VoltScale /\ s.q % 2 = 1)
             THEN s.q + 1
             ELSE s.q
        whole == n \div (10 ^ prec)
        frac == n % (10 ^ prec)
    IN  (IF v < 0 THEN <<45>> ELSE <<>>)
        \o to_string(whole)
        \o (IF prec = 0
            THEN <<>>
            ELSE <<46>> \o [k \in 1..prec |->
                               48 + ((frac \div (10 ^ (prec - k))) % 10)])

Formatted(x, prec) ==
    IF x.inf = 1 THEN <<105, 110, 102>>          \* "inf"
    ELSE IF x.inf = -1 THEN <<45, 105, 110, 102>> \* "-inf"
    ELSE Fixed(x.val, prec)

RECURSIVE FormatFrom(_, _)
FormatFrom(x, prec) ==
    IF Len(Formatted(x, prec)) <= 8 \/ prec = 0
    THEN Formatted(x, prec)
    ELSE FormatFrom(x, prec - 1)

format_edf_num(x) == FormatFrom(x, 6)

Range(s) == {s[k] : k \in DOMAIN s}

\* signal.iter().cloned().fold(f64::INFINITY, f64::min) - 0.1
phys_min(sig) ==
    IF sig = <<>>
    THEN Infinity
    ELSE Finite((CHOOSE v \in Range(sig) : \A w \in Range(sig) : v <= w)
                - Margin)

\* signal.iter().cloned().fold(f64::NEG_INFINITY, f64::max) + 0.1
phys_max(sig) ==
    IF sig = <<>>
    THEN NegInfinity
    ELSE Finite((CHOOSE v \in Range(sig) : \A w \in Range(sig) : v >= w)
                + Margin)

\* signal.len() / samples_per_record: the last, partly filled record is lost
n_records_floor(len, samples_per_record) == len \div samples_per_record

n_records(len, samples_per_record) ==
    (len + samples_per_record - 1) \div samples_per_record

\* the buffers of the 30 write_field calls, in the order of the calls
HeaderWrites(sig, rate) ==
    <<
       \* "0"
       write_field(<<48>>,
                   8),
       \* "X M 04-MAY-1970 Joel_Henderson"
       write_field(<<88, 32, 77, 32, 48, 52, 45, 77, 65, 89, 45, 49, 57, 55,
                             48, 32, 74, 111, 101, 108, 95, 72, 101, 110, 100, 101,
                             114, 115, 111, 110>>,
                   80),
       \* "Startdate 13-FEB-2026 X X KardiaMobile_1L"
       write_field(<<83, 116, 97, 114, 116, 100, 97, 116, 101, 32, 49, 51,
                             45, 70, 69, 66, 45, 50, 48, 50, 54, 32, 88, 32, 88, 32,
                             75, 97, 114, 100, 105, 97, 77, 111, 98, 105, 108, 101, 95,
                             49, 76>>,
                   80),
       \* "13.02.26"
       write_field(<<49, 51, 46, 48, 50, 46, 50, 54>>,
                   8),
       \* "22.42.00"
       write_field(<<50, 50, 46, 52, 50, 46, 48, 48>>,
                   8),
       write_field(to_string(header_bytes),
                   8),
       \* "EDF+C"
       write_field(<<69, 68, 70, 43, 67>>,
                   44),
       write_field(to_string(n_records(Len(sig), rate * record_duration)),
                   8),
       write_field(to_string(record_duration),
                   8),
       write_field(to_string(n_signals),
                   4),
       \* "EKG I"
       write_field(<<69, 75, 71, 32, 73>>,
                   16),
       \* "EDF Annotations"
       write_field(<<69, 68, 70, 32, 65, 110, 110, 111, 116, 97, 116, 105,
                             111, 110, 115>>,
                   16),
       \* "KardiaMobile 1L electrode"
       write_field(<<75, 97, 114, 100, 105, 97, 77, 111, 98, 105, 108, 101,
                             32, 49, 76, 32, 101, 108, 101, 99, 116, 114, 111, 100,
                             101>>,
                   80),
       \* ""
       write_field(<<>>,
                   80),
       \* "mV"
       write_field(<<109, 86>>,
                   8),
       \* ""
       write_field(<<>>,
                   8),
       write_field(format_edf_num(phys_min(sig)),
                   8),
       \* "-1"
       write_field(<<45, 49>>,
                   8),
       write_field(format_edf_num(phys_max(sig)),
                   8),
       \* "1"
       write_field(<<49>>,
                   8),
       \* "-32768"
       write_field(<<45, 51, 50, 55, 54, 56>>,
                   8),
       \* "-32768"
       write_field(<<45, 51, 50, 55, 54, 56>>,
                   8),
       \* "32767"
       write_field(<<51, 50, 55, 54, 55>>,
                   8),
       \* "32767"
       write_field(<<51, 50, 55, 54, 55>>,
                   8),
       \* "Enhanced Filter, 50Hz mains"
       write_field(<<69, 110, 104, 97, 110, 99, 101, 100, 32, 70, 105, 108,
                             116, 101, 114, 44, 32, 53, 48, 72, 122, 32, 109, 97, 105,
                             110, 115>>,
                   80),
       \* ""
       write_field(<<>>,
                   80),
       write_field(to_string(rate * record_duration),
                   8),
       write_field(to_string(annotation_samples),
                   8),
       \* ""
       write_field(<<>>,
                   32),
       \* ""
       write_field(<<>>,
                   32)
    >>

\* the sample at position idx of the padded signal (idx from 0)
PhysVal(sig, idx) == IF idx < Len(sig) THEN sig[idx + 1] ELSE 0

\* number of write_field calls of write_edf
NumHeaderWrites == Len(HeaderWrites(<<>>, 1))

\* number of write_all calls of a complete write_edf
TotalWrites(sig, rate) ==
    NumHeaderWrites
    + n_records(Len(sig), rate * record_duration)
      * (rate * record_duration + 1)

(***************************************************************************)
(* write_edf as steps: File::create, then one step per write_all call.     *)
(* Every call on the file may fail; a failing write_all may have put a     *)
(* part of its buffer into the file.  pc is "write_edf" on entry,          *)
(* "write_header" and "write_records" inside, "metadata" after Ok(()).     *)
(***************************************************************************)
MaxSignalLen == 3

MaxRate == 2

\* -0.9 mV, 0, a trace value (12.345 points above the baseline), 0.9 mV
Voltages == {-255114, 0, 123450, 255114}

\* 300 samples, for a record filled exactly at 300 Hz
FullRecordSignal == [k \in 1..300 |-> ((k % 7) - 3) * 20000]

EdfInputs ==
    {[signal |-> s, sample_rate |-> r] :
        s \in SeqsUpTo(Voltages, MaxSignalLen), r \in 1..MaxRate}
    \cup {[signal |-> FullRecordSignal, sample_rate |-> 300]}

InitEdfAlone ==
    /\ pc = "write_edf"
    /\ err = "none"
    /\ paths = <<>>
    /\ baselines = <<>>
    /\ rows = <<>>
    /\ \E input \in EdfInputs :
          /\ signal = input.signal
          /\ sample_rate = input.sample_rate
    /\ file_exists = FALSE
    /\ file_bytes = <<>>
    /\ written = 0
    /\ phys_val = 0
    /\ dig_val = 0
    /\ InitLocals

\* position of the next write_all call in the data records
RecordOf(w, rate) == (w - NumHeaderWrites) \div (rate + 1)

SampleOf(w, rate) == (w - NumHeaderWrites) % (rate + 1)

NextPhysVal ==
    PhysVal(signal, RecordOf(written, sample_rate) * sample_rate
                    + SampleOf(written, sample_rate))

NextDigVal ==
    voltage_to_digital(NextPhysVal, phys_min(signal).val, phys_max(signal).val)

AtSample ==
    /\ pc = "write_records"
    /\ written < TotalWrites(signal, sample_rate)
    /\ SampleOf(written, sample_rate) < sample_rate

AtAnnotation ==
    /\ pc = "write_records"
    /\ written < TotalWrites(signal, sample_rate)
    /\ SampleOf(written, sample_rate) = sample_rate

\* the buffer of the next write_all call
NextBuffer ==
    IF pc = "write_header"
    THEN HeaderWrites(signal, sample_rate)[written + 1]
    ELSE IF AtSample
         THEN to_le_bytes(NextDigVal)
         ELSE make_annotation_bytes(
                  RecordOf(written, sample_rate) * record_duration,
                  annotation_samples)

\* let mut file = File::create(path)?
CreateFile ==
    /\ pc = "write_edf"
    /\ pc' = "write_header"
    /\ file_exists' = TRUE
    /\ file_bytes' = <<>>
    /\ UNCHANGED <<err, paths, interpVars, stageVars, sample_rate, written,
                   phys_val, dig_val>>

CreateFails ==
    /\ pc = "write_edf"
    /\ pc' = "failed"
    /\ err' = "Io"
    /\ UNCHANGED <<paths, interpVars, stageVars, edfVars>>

\* write_field(&mut file, value, width)?
WriteField ==
    /\ pc = "write_header"
    /\ file_bytes' = file_bytes \o NextBuffer
    /\ written' = written + 1
    /\ pc' = IF written' = NumHeaderWrites
             THEN "write_records"
             ELSE pc
    /\ UNCHANGED <<err, paths, interpVars, stageVars, sample_rate,
                   file_exists, phys_val, dig_val>>

\* file.write_all(&dig_val.to_le_bytes())?
WriteSample ==
    /\ AtSample
    /\ phys_val' = NextPhysVal
    /\ dig_val' = NextDigVal
    /\ file_bytes' = file_bytes \o NextBuffer
    /\ written' = written + 1
    /\ UNCHANGED <<pc, err, paths, interpVars, stageVars, sample_rate,
                   file_exists>>

\* file.write_all(&annotation_bytes)?
WriteAnnotation ==
    /\ AtAnnotation
    /\ file_bytes' = file_bytes \o NextBuffer
    /\ written' = written + 1
    /\ UNCHANGED <<pc, err, paths, interpVars, stageVars, sample_rate,
                   file_exists, phys_val, dig_val>>

\* a write_all call returns Err: nothing or half of the buffer was written
WriteFails ==
    /\ pc \in {"write_header", "write_records"}
    /\ written < TotalWrites(signal, sample_rate)
    /\ \E k \in {0, Len(NextBuffer) \div 2} :
          file_bytes' = file_bytes \o SubSeq(NextBuffer, 1, k)
    /\ pc' = "failed"
    /\ err' = "Io"
    /\ UNCHANGED <<paths, interpVars, stageVars, sample_rate, file_exists,
                   written, phys_val, dig_val>>

\* Ok(()) after the loop over the records
WriteReturn ==
    /\ pc = "write_records"
    /\ written = TotalWrites(signal, sample_rate)
    /\ pc' = "metadata"
    /\ UNCHANGED <<err, paths, interpVars, stageVars, edfVars>>

NextEdf ==
    \/ CreateFile
    \/ CreateFails
    \/ WriteField
    \/ WriteSample
    \/ WriteAnnotation
    \/ WriteFails
    \/ WriteReturn

SpecEdf == InitEdfAlone /\ [][NextEdf]_vars

(***************************************************************************)
(* main from the return of extract_paths on: the stages in the order of    *)
(* the calls, each error returned by `?`.                                  *)
(***************************************************************************)
Grid == DrawingPath(<<Rule(100000), Rule(300000), Rule(500000), Rule(700000)>>,
                    Black, 400)

\* the path lists of a page: a grid with one trace, with two traces in two
\* rows, with no trace, and a page without grid
Pages ==
    { <<Grid, TraceCatalogue[1]>>,
      <<TraceCatalogue[3], Grid, TraceCatalogue[1]>>,
      <<Grid>>,
      <<TraceCatalogue[1]>> }

InitMain ==
    /\ pc = "extract_baselines"
    /\ err = "none"
    /\ paths \in Pages
    /\ InitLocals
    /\ InitStages
    /\ sample_rate = 300
    /\ file_exists = FALSE
    /\ file_bytes = <<>>
    /\ written = 0
    /\ phys_val = 0
    /\ dig_val = 0

\* let file_size = std::fs::metadata(edf_path)?.len()
Metadata ==
    /\ pc = "metadata"
    /\ pc' = "done"
    /\ UNCHANGED <<err, paths, interpVars, stageVars, edfVars>>

MetadataFails ==
    /\ pc = "metadata"
    /\ pc' = "failed"
    /\ err' = "Io"
    /\ UNCHANGED <<paths, interpVars, stageVars, edfVars>>

NextMain ==
    \/ ExtractBaselines
    \/ ExtractRows
    \/ Concatenate
    \/ CreateFile
    \/ CreateFails
    \/ WriteField
    \/ WriteSample
    \/ WriteAnnotation
    \/ WriteFails
    \/ WriteReturn
    \/ Metadata
    \/ MetadataFails

SpecMain == InitMain /\ [][NextMain]_vars

(***************************************************************************)
(* get_page_height.  An object is a record of its kind and its value: the  *)
(* number, the elements of an array, the id a reference names, the entries *)
(* of a dictionary.  The document maps object ids to objects.  One step is *)
(* one call of get_page_height_inner.                                      *)
(***************************************************************************)
\* Ok(792.0)
DefaultPageHeight == 792000

Arr(items) == [kind |-> "Array", val |-> items]

Ref(id) == [kind |-> "Reference", val |-> id]

\* a dictionary entry that is not there
Absent == [kind |-> "Absent", val |-> 0]

Dict(media_box, parent) ==
    [kind |-> "Dictionary", val |-> [MediaBox |-> media_box, Parent |-> parent]]

obj_f64(obj) == IF IsNum(obj) THEN Ok(obj.val) ELSE Err("MalformedOperand")

deref(d, obj) ==
    IF obj.kind = "Reference"
    THEN IF obj.val \in DOMAIN d THEN Ok(d[obj.val]) ELSE Err("ObjectNotFound")
    ELSE Ok(obj)

Return(result) == [recurse |-> FALSE, result |-> result, next |-> 0]

Recurse(id) == [recurse |-> TRUE, result |-> Ok(0), next |-> id]

\* the depth test one level early
TooDeepFrom10(dep) == dep >= 10

TooDeep(dep) == dep > 10

\* one call: a returned result, or the recursive call it ends with
get_page_height_inner(d, id, dep) ==
    IF TooDeep(dep) THEN Return(Ok(DefaultPageHeight))
    ELSE IF id \notin DOMAIN d THEN Return(Err("ObjectNotFound"))
    ELSE IF d[id].kind # "Dictionary" THEN Return(Err("NotADictionary"))
    ELSE LET dict == d[id].val
             mb == deref(d, dict.MediaBox)
         IN  IF dict.MediaBox.kind # "Absent" /\ ~mb.ok
             THEN Return(mb)
             ELSE IF /\ dict.MediaBox.kind # "Absent"
                     /\ mb.val.kind = "Array"
                     /\ Len(mb.val.val) = 4
             THEN Return(obj_f64(mb.val.val[4]))
             ELSE IF dict.Parent.kind = "Reference"
             THEN Recurse(dict.Parent.val)
             ELSE Return(Ok(DefaultPageHeight))

MaxChain == 12

\* a media box of height 600 + i
Box(i) == Arr(<<Num(0), Num(0), Num(612000), Num(600000 + 1000 * i)>>)

\* what a node may hold under MediaBox besides a box of four numbers: three
\* elements, no array, four elements of which the last is no number, a
\* reference to a box, a reference to nothing
Decoys(i) ==
    [short |-> Arr(<<Num(0), Num(0), Num(612000)>>),
     name |-> NameObj,
     second |-> Box(i),
     nonnumber |-> Arr(<<Num(0), Num(0), Num(612000), NameObj>>),
     indirect |-> Ref(50),
     dangling |-> Ref(60)]

\* the Parent entry of the topmost node: none, back to the page, to the node
\* itself, to an object that is not there, or no reference
Tails(n) ==
    [end |-> Absent, cycle |-> Ref(1), self |-> Ref(n), dangling |-> Ref(n + 1),
     inline |-> NameObj]

\* the page is object 1, the parent of node i is node i + 1; node `holder`
\* has a media box, node `decoy` holds the decoy (0: no such node); object 50
\* is a box held indirectly
Chain(n, holder, decoy, decoyKind, tail) ==
    [id \in (1..n) \cup {50} |->
        IF id = 50
        THEN Box(50)
        ELSE Dict(IF id = holder THEN Box(id)
                  ELSE IF id = decoy THEN Decoys(id)[decoyKind]
                  ELSE Absent,
                  IF id < n THEN Ref(id + 1) ELSE Tails(n)[tail])]

Docs ==
    {Chain(n, holder, decoy, decoyKind, tail) :
        n \in 1..MaxChain, holder \in {0, 1, 2, 10, 11, 12, MaxChain},
        decoy \in {0, 1, 3, 11}, decoyKind \in DOMAIN Decoys(0),
        tail \in DOMAIN Tails(0)}

InitHeight ==
    /\ pc = "get_page_height"
    /\ err = "none"
    /\ paths = <<>>
    /\ doc \in Docs
    /\ obj_id = 1
    /\ depth = 0
    /\ page_height = 0
    /\ state = GraphicsStateDefault
    /\ state_stack = <<>>
    /\ current_segments = <<>>
    /\ current_pos = Point(0, 0)
    /\ subpath_start = Point(0, 0)
    /\ nops = 0
    /\ saveLog = <<>>
    /\ ctmLog = <<>>
    /\ InitStages
    /\ InitEdf

HeightFrame ==
    UNCHANGED <<paths, doc, state, state_stack, current_segments, current_pos,
                subpath_start, nops, saveLog, ctmLog, stageVars, edfVars>>

\* return get_page_height_inner(doc, *parent_id, depth + 1)
HeightWalkUp ==
    /\ pc = "get_page_height"
    /\ LET call == get_page_height_inner(doc, obj_id, depth)
       IN  /\ call.recurse
           /\ obj_id' = call.next
           /\ depth' = depth + 1
    /\ UNCHANGED <<pc, err, page_height>>
    /\ HeightFrame

\* let page_height = pdf_extract::get_page_height(&doc, page_id)? with Ok
HeightReturns ==
    /\ pc = "get_page_height"
    /\ LET call == get_page_height_inner(doc, obj_id, depth)
       IN  /\ ~call.recurse
           /\ call.result.ok
           /\ page_height' = call.result.val
    /\ pc' = "extract_paths"
    /\ UNCHANGED <<err, obj_id, depth>>
    /\ HeightFrame

\* the same with Err
HeightFails ==
    /\ pc = "get_page_height"
    /\ LET call == get_page_height_inner(doc, obj_id, depth)
       IN  /\ ~call.recurse
           /\ ~call.result.ok
           /\ err' = call.result.val
    /\ pc' = "failed"
    /\ UNCHANGED <<page_height, obj_id, depth>>
    /\ HeightFrame

NextHeight ==
    \/ HeightWalkUp
    \/ HeightReturns
    \/ HeightFails

\* the call runs on: a sequential program takes its next step
SpecHeight == InitHeight /\ [][NextHeight]_vars /\ WF_vars(NextHeight)

(***************************************************************************)
(* Properties of extract_paths                                             *)
(***************************************************************************)
\* indices in log of the "q" entries not matched by a later "Q", oldest first
RECURSIVE UnmatchedSaves(_, _, _)
UnmatchedSaves(log, i, acc) ==
    IF i > Len(log)
    THEN acc
    ELSE IF log[i].operator = "q"
         THEN UnmatchedSaves(log, i + 1, Append(acc, i))
         ELSE UnmatchedSaves(log, i + 1,
                             IF acc = <<>> THEN acc ELSE Front(acc))

OpenSaves(log) == UnmatchedSaves(log, 1, <<>>)

PathFrame ==
    /\ current_pos' = current_pos
    /\ subpath_start' = subpath_start
    /\ current_segments' = current_segments
    /\ paths' = paths

RestorePost ==
    LET open == OpenSaves(saveLog)
    IN  /\ IF open = <<>>
           THEN state' = state /\ state_stack' = <<>>
           ELSE /\ state' = saveLog[Last(open)].state
                /\ state_stack' =
                     [k \in 1..(Len(open) - 1) |-> saveLog[open[k]].state]
        /\ PathFrame

\* C8: a restore (Q) sets the graphics state to the value it had at the most
\* recent save (q) not yet matched by a restore and removes that entry from
\* the stack; with no such save it leaves the graphics state unchanged; the
\* current point, subpath start, pending segments and emitted paths are
\* unchanged in both cases.
C8_RestoreReturnsToMatchingSave == [][OpRestore => RestorePost]_vars

\* a Q has just undone the inner of two nested saves that saw different
\* graphics states, and the state it left differs from the one it found
C8_Witness ==
    /\ pc = "extract_paths"
    /\ saveLog # <<>>
    /\ Last(saveLog).operator = "Q"
    /\ LET open == OpenSaves(Front(saveLog))
       IN  /\ Len(open) >= 2
           /\ saveLog[open[1]].state # saveLog[Last(open)].state
           /\ state = saveLog[Last(open)].state
           /\ state # Last(saveLog).state
           /\ Len(state_stack) = Len(open) - 1

FarFromStart ==
    \/ Abs(current_pos.x - subpath_start.x) > 1
    \/ Abs(current_pos.y - subpath_start.y) > 1

PaintPost(segs) ==
    /\ current_segments' = <<>>
    /\ IF segs = <<>>
       THEN paths' = paths
       ELSE paths' = Append(paths, [segments |-> segs,
                                    color |-> state.stroke_color,
                                    width |-> state.line_width])

DiscardPost ==
    /\ paths' = paths
    /\ current_segments' = <<>>

\* C9 as stated: every stroke-type paint operator (S, s, B, B*, b, b*)
\* appends exactly one path holding the pending segments, tagged with the
\* current colour and width; f, F, f*, n append nothing; the pending list is
\* empty afterwards.
C9_Original ==
    [][/\ (OpStroke \/ OpCloseStroke \/ OpFillStroke) =>
            /\ paths' = Append(paths, [segments |-> current_segments,
                                       color |-> state.stroke_color,
                                       width |-> state.line_width])
            /\ current_segments' = <<>>
       /\ (OpFill \/ OpEndPath) => DiscardPost]_vars

\* C9 (amended): a stroke-type paint operator appends one path exactly when
\* the list it emits is non-empty, and nothing otherwise; that list is the
\* pending segments in draw order, followed for s by the closing segment when
\* the current point is more than 0.001 from the subpath start; the path is
\* tagged with the colour and width current when the operator runs; f, F, f*
\* and n append nothing; after any of them the pending list is empty.
C9_PaintEmitsPendingSegments ==
    [][/\ (OpStroke \/ OpFillStroke) => PaintPost(current_segments)
       /\ OpCloseStroke =>
            PaintPost(IF FarFromStart
                      THEN Append(current_segments,
                                  <<current_pos, subpath_start>>)
                      ELSE current_segments)
       /\ (OpFill \/ OpEndPath) => DiscardPost]_vars

\* a path of several segments was emitted under a colour and width set after
\* the segments were drawn (both differ from the initial state's)
C9_Witness ==
    /\ pc = "extract_paths"
    /\ paths # <<>>
    /\ current_segments = <<>>
    /\ Len(Last(paths).segments) >= 2
    /\ Last(paths).color = state.stroke_color
    /\ Last(paths).color # <<0, 0, 0>>
    /\ Last(paths).width = state.line_width
    /\ Last(paths).width # DefaultLineWidth

\* C10: s leaves the same emitted paths, pending segments, current point and
\* subpath start as h followed by S.
C10_CloseStrokeIsCloseThenStroke ==
    [][OpCloseStroke =>
         LET hS == ArmStroke(ArmClose(Cur, <<>>), <<>>)
         IN  /\ paths' = hS.paths
             /\ current_segments' = hS.current_segments
             /\ current_pos' = hS.current_pos
             /\ subpath_start' = hS.subpath_start]_vars

(***************************************************************************)
(* Properties of ecg_process.rs                                            *)
(***************************************************************************)
\* indices of the segments of a path that are rulings in the visible band
VisibleRulings(path) ==
    {k \in DOMAIN path.segments :
        /\ Abs(path.segments[k][1].y - path.segments[k][2].y) < 10
        /\ Abs(path.segments[k][2].x - path.segments[k][1].x) > 500000
        /\ path.segments[k][1].y < 760000}

GridStyle(path) ==
    /\ path.color = <<0, 0, 0>>
    /\ 350 < path.width
    /\ path.width < 450
    /\ Len(path.segments) >= 4

IsGrid(path) == GridStyle(path) /\ Cardinality(VisibleRulings(path)) >= 4

\* C2: extract_baselines returns BaselinesNotFound when no path is black,
\* of width in (0.35, 0.45), of at least 4 segments and with at least 4
\* rulings below 760; otherwise it returns exactly 4 values, all < 760, the
\* y of the first four such rulings, in segment order, of the earliest such
\* path.
C2_BaselinesFromEarliestGrid ==
    pc # "extract_baselines" =>
        LET grids == {i \in DOMAIN paths : IsGrid(paths[i])}
        IN  IF grids = {}
            THEN pc = "failed" /\ err = "BaselinesNotFound"
            ELSE LET path == paths[Kth(grids, 1)]
                     R == VisibleRulings(path)
                 IN  /\ pc = "extract_ecg_waveform_rows"
                     /\ err = "none"
                     /\ Len(baselines) = 4
                     /\ \A k \in 1..4 :
                          /\ baselines[k] = path.segments[Kth(R, k)][1].y
                          /\ baselines[k] < 760000

\* the second path has 5 horizontal rulings, 4 of them visible, and gave the
\* baselines; the first has the style of a grid but fewer than 4 rulings
C2_Witness ==
    /\ pc = "extract_ecg_waveform_rows"
    /\ Len(paths) = 2
    /\ GridStyle(paths[1])
    /\ ~IsGrid(paths[1])
    /\ Len(paths[2].segments) = 5
    /\ \A k \in 1..5 :
         Abs(paths[2].segments[k][2].x - paths[2].segments[k][1].x) > 500000
    /\ Cardinality(VisibleRulings(paths[2])) = 4
    /\ baselines = <<100000, 300000, 500000, 700000>>

\* ---- rows ----
TraceStyle(path) ==
    /\ path.color = <<0, 0, 0>>
    /\ 350 < path.width
    /\ path.width < 450
    /\ Len(path.segments) >= 40

\* the reconstructed points of a path
PointsOf(segs) == PathPoints(segs, 1, Len(segs), <<>>)

\* the row (from 0) a path goes to, -1 when it goes to none; dist[r] is
\* |mean y - baseline r| times the number of points
RowOf(path, bls) ==
    LET points == PointsOf(path.segments)
        n == Len(points)
        total == SumY(points, 1, n)
        dist == [r \in 1..Len(bls) |-> Abs(total - n * bls[r])]
        near == {r \in 1..Len(bls) :
                   /\ dist[r] < 80000 * n
                   /\ \A q \in 1..Len(bls) : dist[r] <= dist[q]
                   /\ \A q \in 1..(r - 1) : dist[q] > dist[r]}
    IN  IF TraceStyle(path) /\ near # {}
        THEN (CHOOSE r \in near : TRUE) - 1
        ELSE -1

\* the points of the paths i.. that go to row r, in path order
RECURSIVE PointsForRow(_, _, _)
PointsForRow(rowOf, r, i) ==
    IF i > Len(paths)
    THEN <<>>
    ELSE (IF rowOf[i] = r THEN PointsOf(paths[i].segments) ELSE <<>>)
         \o PointsForRow(rowOf, r, i + 1)

\* C3: a path contributes points exactly when it is black, of width in
\* (0.35, 0.45), of at least 40 segments, and the mean y of its points is
\* less than 80 from the nearest baseline; then all its points are in the row
\* of that baseline and in no other, and otherwise in none: every row holds
\* the points of the paths that go to it, sorted by x, and nothing else.
C3_RowsHoldExactlyThePathsNearThem ==
    pc = "concatenate_to_signal" =>
        LET rowOf == [i \in DOMAIN paths |-> RowOf(paths[i], baselines)]
        IN  /\ \A i \in DOMAIN paths : rowOf[i] \in {-1} \cup DOMAIN rows
            /\ \A r \in DOMAIN rows :
                 rows[r] = SortByX(PointsForRow(rowOf, r, 1))

\* a path of exactly 40 segments filled a row alone while a path of 39
\* segments and the same style, as near to that baseline, was left out
C3_Witness ==
    /\ pc = "concatenate_to_signal"
    /\ Len(paths) = 2
    /\ \E i \in 1..2 : \E j \in 1..2 :
         /\ Len(paths[i].segments) = 40
         /\ Len(paths[j].segments) = 39
         /\ paths[j].color = paths[i].color
         /\ paths[j].width = paths[i].width
         /\ RowOf(paths[i], baselines) >= 0
         /\ RowOf(paths[j], baselines) = -1
         /\ Len(rows[RowOf(paths[i], baselines)]) =
              Len(PointsOf(paths[i].segments))

\* ---- dedup ----
\* kept: the first point and every point more than 0.01 from the point
\* just before it in the row
KeptByNeighbour(row) ==
    {1} \cup {k \in 2..Len(row) : Abs(row[k].x - row[k - 1].x) > 10}

\* kept: the first point and every point more than 0.01 from the last kept
\* point before it
KeptByLastKept(row) ==
    CHOOSE K \in SUBSET (1..Len(row)) :
        /\ 1 \in K
        /\ \A k \in 2..Len(row) :
             k \in K <=>
               LET last == CHOOSE j \in K :
                             j < k /\ \A m \in K : m < k => m <= j
               IN  Abs(row[k].x - row[last].x) > 10

Volts(points, bl) == [m \in 1..Len(points) |-> (bl - points[m].y) * VoltPerPoint]

RECURSIVE SignalOfKept(_, _)
SignalOfKept(Keep(_), r) ==
    IF r >= Len(baselines)
    THEN <<>>
    ELSE (IF rows[r] = <<>>
          THEN <<>>
          ELSE Volts(Restrict(rows[r], Keep(rows[r])), baselines[r + 1]))
         \o SignalOfKept(Keep, r + 1)

DedupedRow(r) == IF rows[r] = <<>> THEN <<>> ELSE DedupRow(rows[r])

RECURSIVE SamplesBefore(_)
SamplesBefore(r) ==
    IF r = 0 THEN 0 ELSE SamplesBefore(r - 1) + Len(DedupedRow(r - 1))

\* C7: the rows returned for N baselines have exactly the indices 0..N-1;
\* concatenate_to_signal then never fails; the signal is the rows' converted
\* points in increasing row index, an empty row giving no sample.
C7_RowsCompleteSignalInRowOrder ==
    pc # "extract_ecg_waveform_rows" =>
        /\ DOMAIN rows = 0..(Len(baselines) - 1)
        /\ pc # "failed"
        /\ err = "none"
        /\ pc = "write_edf" =>
             /\ Len(signal) = SamplesBefore(Len(baselines))
             /\ \A r \in DOMAIN rows :
                  \A k \in 1..Len(DedupedRow(r)) :
                     signal[SamplesBefore(r) + k] =
                       (baselines[r + 1] - DedupedRow(r)[k].y) * VoltPerPoint

\* three rows, the middle one empty, the outer two filled: the signal has
\* the samples of row 0, then those of row 2
C7_Witness ==
    /\ pc = "write_edf"
    /\ Len(baselines) = 3
    /\ rows[0] # <<>>
    /\ rows[1] = <<>>
    /\ rows[2] # <<>>
    /\ Len(signal) = Len(DedupedRow(0)) + Len(DedupedRow(2))

(***************************************************************************)
(* Properties of write_edf and of main                                     *)
(***************************************************************************)
\* ceil(L / R): the least n with n * R >= L
CeilDiv(L, R) ==
    CHOOSE n \in 0..L : n * R >= L /\ \A m \in 0..(n - 1) : m * R < L

\* len bytes of the file after the first off bytes
FileSlice(off, len) == SubSeq(file_bytes, off + 1, off + len)

\* str followed by spaces up to width
Padded(str, width) == str \o [k \in 1..(width - Len(str)) |-> 32]

\* the 16-bit two's complement number with the bytes lo, hi
FromLe(lo, hi) ==
    IF lo + 256 * hi >= 32768 THEN lo + 256 * hi - 65536 ELSE lo + 256 * hi

\* write_edf returned Ok(())
WriteSucceeded == pc \in {"metadata", "done"}

RecordLen(R) == 2 * R + 114

\* the file is a complete EDF+ file for signal at sample_rate
CompleteFile ==
    LET L == Len(signal)
        R == sample_rate
        n == CeilDiv(L, R)
    IN  /\ Len(file_bytes) = 768 + n * RecordLen(R)
        /\ \A k \in 1..768 : file_bytes[k] \in 32..126
        /\ FileSlice(0, 8) = Padded(<<48>>, 8)
        /\ FileSlice(184, 8) = Padded(to_string(768), 8)
        /\ FileSlice(236, 8) = Padded(to_string(n), 8)
        /\ FileSlice(252, 4) = Padded(to_string(2), 4)
        /\ FileSlice(496, 8) = Padded(<<45, 51, 50, 55, 54, 56>>, 8)
        /\ FileSlice(688, 8) = Padded(to_string(R), 8)
        /\ FileSlice(696, 8) = Padded(to_string(57), 8)
        /\ \A k \in 0..(n - 1) :
              /\ \A i \in 0..(R - 1) :
                    LET off == 768 + k * RecordLen(R) + 2 * i
                    IN  FromLe(file_bytes[off + 1], file_bytes[off + 2])
                        = voltage_to_digital(
                              IF k * R + i < L THEN signal[k * R + i + 1] ELSE 0,
                              phys_min(signal).val, phys_max(signal).val)
              /\ LET off == 768 + k * RecordLen(R) + 2 * R
                     tal == <<43>> \o to_string(k) \o <<20, 20>>
                 IN  \A j \in 1..114 :
                        file_bytes[off + j]
                        = IF j <= Len(tal) THEN tal[j] ELSE 0

\* C1: a run that ended in an error leaves no output file, and a run that
\* succeeded leaves the complete file.
C1_NoPartialFileAfterError ==
    /\ pc = "failed" => ~file_exists
    /\ pc = "done" => file_exists /\ CompleteFile

\* C5: after a successful write_edf the file is the 768 header bytes, its
\* fields padded to their widths, followed by ceil(L / R) records of R
\* little-endian samples (0.0 past the end of the signal) and a 114-byte
\* null-padded annotation "+<record>" 0x14 0x14; 300 samples at 300 Hz are
\* one record.
C5_FileLayout ==
    WriteSucceeded =>
        /\ file_exists
        /\ CompleteFile
        /\ (Len(signal) = 300 /\ sample_rate = 300) =>
              Len(file_bytes) = 768 + RecordLen(300)

\* C5 witness: a signal of 3 samples written at 2 Hz, in 2 records of which
\* the second is padded
C5_Witness ==
    /\ pc = "metadata"
    /\ Len(signal) = 3
    /\ sample_rate = 2
    /\ Len(file_bytes) = 768 + 2 * RecordLen(2)

\* decoding d with phys_min + (d + 32768) * (phys_max - phys_min) / 65535
\* is within (phys_max - phys_min) / 65535 of v
RoundTripWithinStep(v, d, pmin, pmax) ==
    LET s == MulDiv(v - pmin, 65535, pmax - pmin)
        k == d + 32768 - s.q
    IN  /\ k \in -1..2
        /\ Abs(k * (pmax - pmin) - s.r) <= pmax - pmin

\* C6: the digital value of every converted sample is in -32768..32767; for
\* a voltage of the signal it decodes back to within one digitization step;
\* with the physical range -1.0 .. 1.0 the voltage 0.0 gets a digital value
\* within one unit of 0.
C6_DigitalInRangeRoundTrip ==
    written > NumHeaderWrites =>
        LET pmin == phys_min(signal).val
            pmax == phys_max(signal).val
        IN  /\ pmin < pmax
            /\ dig_val \in -32768..32767
            /\ phys_val \in Range(signal) =>
                  RoundTripWithinStep(phys_val, dig_val, pmin, pmax)
            /\ (pmin = -VoltScale /\ pmax = VoltScale /\ phys_val = 0) =>
                  dig_val \in -1..1

\* C6 witness: 0.0 was converted with the physical range -1.0 .. 1.0
C6_Witness ==
    /\ written > NumHeaderWrites
    /\ phys_min(signal) = Finite(-VoltScale)
    /\ phys_max(signal) = Finite(VoltScale)
    /\ phys_val = 0
    /\ dig_val = -1

(***************************************************************************)
(* Properties of extract_paths: operand counts, the CTM                    *)
(***************************************************************************)
\* the operand counts the operators take
TakesCount(o, n) ==
    CASE o = "cm" -> n = 6
      [] o \in {"w", "G"} -> n = 1
      [] o = "RG" -> n = 3
      [] o = "K" -> n = 4
      [] o \in {"SC", "SCN"} -> n \in {1, 3, 4}
      [] o \in {"m", "l"} -> n = 2
      [] o = "re" -> n = 4

\* the operands offered to an operator that takes operands
OperandsOf(o) ==
    CASE o = "cm" -> CmOperands
      [] o = "w" -> WOperands
      [] o = "RG" -> RGOperands
      [] o = "G" -> GOperands
      [] o = "K" -> KOperands
      [] o \in {"SC", "SCN"} -> SCOperands
      [] o = "m" -> MoveOperands
      [] o = "l" -> LineOperands
      [] o = "re" -> RectOperands

OperandOps == {"cm", "w", "RG", "G", "K", "SC", "SCN", "m", "l", "re"}

\* one operation with an operand count its operator does not take
WrongCountStep(ops) ==
    \E o \in ops :
       \E a \in OperandsOf(o) : ~TakesCount(o, Len(a)) /\ Step(o, a)

InterpFrame ==
    /\ state' = state
    /\ state_stack' = state_stack
    /\ PathFrame

\* C11: an unrecognized operator, and a recognized operator with an operand
\* count it does not take, leaves graphics state, state stack, current point,
\* subpath start, pending segments and emitted paths unchanged.
C11_WrongCountLeavesStateUnchanged ==
    [][(WrongCountStep(OperandOps) \/ OpOther) => InterpFrame]_vars

\* the same for all operators but "w" and "G", which read their first operand
\* whenever there is one
WrongCountExceptFirstOperandOps ==
    [][(WrongCountStep(OperandOps \ {"w", "G"}) \/ OpOther) => InterpFrame]_vars

\* nesting depth of saves after the first i entries of log; a Q at depth 0
\* closes nothing
RECURSIVE Depth(_, _)
Depth(log, i) ==
    IF i = 0
    THEN 0
    ELSE LET d == Depth(log, i - 1)
         IN  CASE log[i].operator = "q" -> d + 1
               [] log[i].operator = "Q" -> IF d > 0 THEN d - 1 ELSE 0
               [] OTHER -> d

\* the cm entries not undone by a restore: no later Q closed a save that was
\* open when the cm ran
ActiveCms(log) ==
    {i \in 1..Len(log) :
        /\ log[i].operator = "cm"
        /\ \A j \in i..Len(log) : Depth(log, j) >= Depth(log, i)}

\* the affine map with the six operands a, applied to p
Affine(a, p) ==
    Point(a[1].val * p.x + a[3].val * p.y + a[5].val,
          a[2].val * p.x + a[4].val * p.y + a[6].val)

\* p taken through the active cm entries among the first i, the latest first
RECURSIVE ThroughCms(_, _, _)
ThroughCms(log, i, p) ==
    IF i = 0
    THEN p
    ELSE ThroughCms(log, i - 1,
                    IF i \in ActiveCms(log)
                    THEN Affine(log[i].operands, p)
                    ELSE p)

\* where the operand (px, py) is placed: through the transforms in force,
\* then one vertical flip
Placed(px, py) ==
    LET q == ThroughCms(ctmLog, Len(ctmLog), Point(px, py))
    IN  Point(q.x, page_height - q.y)

\* operator o acts on the operands a
Effective(o, a) == TakesCount(o, Len(a)) /\ ~Malformed(o, a)

MovePost(a) ==
    LET p == Placed(a[1].val, a[2].val)
    IN  /\ current_pos' = p
        /\ subpath_start' = p
        /\ current_segments' = current_segments

LinePost(a) ==
    LET p == Placed(a[1].val, a[2].val)
    IN  /\ current_segments' = Append(current_segments, <<current_pos, p>>)
        /\ current_pos' = p

RectPost(a) ==
    LET p1 == Placed(a[1].val, a[2].val)
        p2 == Placed(a[1].val + a[3].val, a[2].val)
        p3 == Placed(a[1].val + a[3].val, a[2].val + a[4].val)
        p4 == Placed(a[1].val, a[2].val + a[4].val)
    IN  /\ current_segments' =
              current_segments
              \o << <<p1, p2>>, <<p2, p3>>, <<p3, p4>>, <<p4, p1>> >>
        /\ current_pos' = p1
        /\ subpath_start' = p1

\* C12: the points a move, line or rectangle places are its operands taken
\* through the cm operands not undone by a restore, composed in order on the
\* identity, and then flipped once (y' = page_height - y); cm, q and Q leave
\* the pending segments and the emitted paths as they are.
C12_PointsThroughCtmInForce ==
    [][/\ \A a \in MoveOperands :
             (Effective("m", a) /\ Step("m", a)) => MovePost(a)
       /\ \A a \in LineOperands :
             (Effective("l", a) /\ Step("l", a)) => LinePost(a)
       /\ \A a \in RectOperands :
             (Effective("re", a) /\ Step("re", a)) => RectPost(a)
       /\ (OpCm \/ OpSave \/ OpRestore) =>
             (current_segments' = current_segments /\ paths' = paths)]_vars

\* cm, q, cm, Q, m: the second transform was undone, the first is in force,
\* and the point of the move went through the first one only
C12_Witness ==
    /\ pc = "extract_paths"
    /\ Len(ctmLog) = 4
    /\ ctmLog[1].operator = "cm"
    /\ ctmLog[2].operator = "q"
    /\ ctmLog[3].operator = "cm"
    /\ ctmLog[4].operator = "Q"
    /\ ctmLog[1].operands # ctmLog[3].operands
    /\ ActiveCms(ctmLog) = {1}
    /\ nops = 5
    /\ current_pos = Placed(3000, 2000)
    /\ current_pos = Point(2 * 3000, page_height - 2 * 2000)

(***************************************************************************)
(* Properties of get_page_height                                           *)
(***************************************************************************)
\* the node i levels above the page on the Parent chain; 0 past its end
RECURSIVE NodeAt(_, _)
NodeAt(d, i) ==
    IF i = 0
    THEN 1
    ELSE LET below == NodeAt(d, i - 1)
         IN  IF /\ below \in DOMAIN d
                /\ d[below].kind = "Dictionary"
                /\ d[below].val.Parent.kind = "Reference"
             THEN d[below].val.Parent.val
             ELSE 0

\* what node id holds under MediaBox, a reference followed
MediaBoxOf(d, id) ==
    LET mb == d[id].val.MediaBox
    IN  IF mb.kind = "Reference"
        THEN IF mb.val \in DOMAIN d THEN d[mb.val] ELSE Absent
        ELSE mb

\* node id has a media box of 4 elements
HasBox(d, id) ==
    /\ id \in DOMAIN d
    /\ d[id].kind = "Dictionary"
    /\ MediaBoxOf(d, id).kind = "Array"
    /\ Len(MediaBoxOf(d, id).val) = 4

\* the levels 0..10 above the page with a media box
BoxLevels(d) == {i \in 0..10 : HasBox(d, NodeAt(d, i))}

\* the height inherited by the page
InheritedHeight(d) ==
    IF BoxLevels(d) = {}
    THEN 792000
    ELSE LET nearest == CHOOSE i \in BoxLevels(d) :
                            \A j \in BoxLevels(d) : i <= j
         IN  MediaBoxOf(d, NodeAt(d, nearest)).val[4].val

\* every Parent names a dictionary of the document, every MediaBox reference
\* names an object of the document, the fourth element of every 4-element
\* media box is a number
WellFormed(d) ==
    \A id \in DOMAIN d :
       d[id].kind = "Dictionary" =>
          /\ d[id].val.Parent.kind = "Reference" =>
                /\ d[id].val.Parent.val \in DOMAIN d
                /\ d[d[id].val.Parent.val].kind = "Dictionary"
          /\ d[id].val.MediaBox.kind = "Reference" =>
                d[id].val.MediaBox.val \in DOMAIN d
          /\ HasBox(d, id) => IsNum(MediaBoxOf(d, id).val[4])

\* the Parent chain of the page comes back to the page
Cyclic(d) == \E i \in 1..11 : NodeAt(d, i) = 1

\* C13: get_page_height terminates on every document of dictionaries, also
\* with a cycle of Parent references; it returns the fourth element of the
\* media box of the nearest node, from the page up to 10 levels above it, that
\* has a 4-element media box, and 792 when the chain ends or 10 levels pass
\* without one.
C13_HeightFromNearestBoxWithin10 ==
    /\ [](pc = "extract_paths" => page_height = InheritedHeight(doc))
    /\ [](pc = "failed" => ~WellFormed(doc))
    /\ [](depth <= 11)
    /\ <>(pc # "get_page_height")

\* a cycle of Parent references without a media box: the walk stopped at
\* depth 11 with the default
C13_Witness ==
    /\ pc = "extract_paths"
    /\ Cyclic(doc)
    /\ WellFormed(doc)
    /\ BoxLevels(doc) = {}
    /\ depth = 11
    /\ page_height = 792000

====
